---- MODULE Spec2Model ----
(***************************************************************************)
(* stoncc: lexer (src/src/lexer.rs), binding-power parser and operator     *)
(* semantics (src/src/parser.rs) and the evaluator (src/src/main.rs).      *)
(*                                                                         *)
(* A byte is a one-character string; a byte buffer is a sequence of bytes. *)
(* Offsets into the buffer are 0-based as in the source, so the byte at    *)
(* offset i is s[i + 1].                                                   *)
(***************************************************************************)
EXTENDS Integers, Sequences, FiniteSets, TLC

VARIABLES
    s,          \* the byte buffer handed to the core
    toks,       \* its tokens, noted when it is parsed (the code reads s only)
    lexer,      \* the Lexer: the one expr creates, or the one a caller drives
    nexts,      \* the tokens the calls of next() have returned, in order
    served,     \* how many of them came out of the lookahead buffer
    lastPeek,   \* what peek() returned, if no next() was called since
    pc,         \* "parse", "eval", "done"; "lex"; "fatal": the process is gone
    ast,        \* what expr returned
    build,      \* the build that evaluates: overflow checks, recursion as loop
    val         \* what eval returned

vars == <<s, toks, lexer, nexts, served, lastPeek, pc, ast, build, val>>

(***************************************************************************)
(* Bounds of the model.                                                    *)
(***************************************************************************)
MaxLen == 5
MaxLexLen == 3
MaxCalls == 5
MaxChain == 4

(***************************************************************************)
(* Byte classes (u8::is_ascii_digit, is_ascii_alphabetic,                  *)
(* is_ascii_alphanumeric, is_ascii_whitespace) and the operator bytes of   *)
(* the match in Lexer::next.                                               *)
(***************************************************************************)
AsciiDigit == {"0", "1", "2", "3", "4", "5", "6", "7", "8", "9"}

AsciiAlphabetic ==
    {"a", "b", "c", "d", "e", "f", "g", "h", "i", "j", "k", "l", "m",
     "n", "o", "p", "q", "r", "s", "t", "u", "v", "w", "x", "y", "z",
     "A", "B", "C", "D", "E", "F", "G", "H", "I", "J", "K", "L", "M",
     "N", "O", "P", "Q", "R", "S", "T", "U", "V", "W", "X", "Y", "Z"}

AsciiAlphanumeric == AsciiAlphabetic \cup AsciiDigit

AsciiWhitespace == {" ", "\t", "\n", "\f", "\r"}

OpBytes == {"+", "-", "*", "/", "^", "!", "(", ")"}

DigitVal ==
    [c \in AsciiDigit |->
        CASE c = "0" -> 0 [] c = "1" -> 1 [] c = "2" -> 2 [] c = "3" -> 3
          [] c = "4" -> 4 [] c = "5" -> 5 [] c = "6" -> 6 [] c = "7" -> 7
          [] c = "8" -> 8 [] c = "9" -> 9]

I32Max == 2147483647
I32Min == (-2147483647) - 1

(***************************************************************************)
(* The bytes the inputs of the model are drawn from: the pipeline reads    *)
(* digits, a letter and every operator byte; the lexer alone is also given *)
(* a second letter, blanks and a byte no rule of the lexer accepts.        *)
(***************************************************************************)
ExprBytes == {"0", "1", "a"} \cup OpBytes

LexBytes == {"1", "2", "a", "b", " ", "#"} \cup OpBytes

(***************************************************************************)
(* enum Token.  Every token is a record of the same shape: t is the        *)
(* variant, n the payload of Int, name the payload of Sym (its bytes).     *)
(***************************************************************************)
Tok(t) == [t |-> t, n |-> 0, name |-> <<>>]
TokInt(n) == [t |-> "Int", n |-> n, name |-> <<>>]
TokSym(name) == [t |-> "Sym", n |-> 0, name |-> name]

None == [t |-> "None", n |-> 0, name |-> <<>>]

\* What a call returns: a value, or the process has terminated (a panic or
\* process::exit) and there is no value.
LexOk(tok, lx) == [ok |-> TRUE, tok |-> tok, lx |-> lx, why |-> ""]
LexFatal(why, lx) == [ok |-> FALSE, tok |-> None, lx |-> lx, why |-> why]

from_op(c) ==
    CASE c = "+" -> Tok("Plus")
      [] c = "-" -> Tok("Minus")
      [] c = "*" -> Tok("Star")
      [] c = "/" -> Tok("Slash")
      [] c = "(" -> Tok("LParen")
      [] c = ")" -> Tok("RParen")
      [] c = "^" -> Tok("Caret")
      [] c = "!" -> Tok("Fac")

\* The length of the run of bytes of class C that starts at offset i of buf.
RECURSIVE RunLen(_, _, _)
RunLen(buf, i, C) ==
    IF i < Len(buf) /\ buf[i + 1] \in C THEN 1 + RunLen(buf, i + 1, C) ELSE 0

\* str::parse::<i32> of the digits buf[i .. i+j): the value, or -1 when it
\* does not fit an i32 (parse returns Err and unwrap panics).
RECURSIVE ParseI32(_, _, _, _)
ParseI32(buf, i, j, acc) ==
    IF j = 0 THEN acc
    ELSE LET d == DigitVal[buf[i + 1]] IN
         IF acc > (I32Max - d) \div 10 THEN -1
         ELSE ParseI32(buf, i + 1, j - 1, acc * 10 + d)

\* Token::from_int on &s[i..]: the token (None on overflow) and the count of
\* bytes it spans.
from_int(buf, i) ==
    LET j == RunLen(buf, i, AsciiDigit)
        num == ParseI32(buf, i, j, 0)
    IN  <<IF num < 0 THEN None ELSE TokInt(num), j>>

\* Token::from_symbol on &s[i..].
from_symbol(buf, i) ==
    LET j == RunLen(buf, i, AsciiAlphanumeric)
    IN  <<TokSym(SubSeq(buf, i + 1, i + j)), j>>

(***************************************************************************)
(* struct Lexer: peeked is the lookahead buffer (None when empty), i the   *)
(* offset of the next unread byte; the buffer it borrows is the variable s.*)
(***************************************************************************)
Lexer_new == [peeked |-> None, i |-> 0]

\* The while loop of Lexer::next, entered with the lookahead buffer empty.
RECURSIVE scan(_, _)
scan(buf, i) ==
    IF i < Len(buf)
    THEN LET c == buf[i + 1] IN
         IF c \in OpBytes
            THEN LexOk(from_op(c), [peeked |-> None, i |-> i + 1])
         ELSE IF c \in AsciiDigit
            THEN LET r == from_int(buf, i) IN
                 IF r[1] = None
                 THEN LexFatal("number", [peeked |-> None, i |-> i])
                 ELSE LexOk(r[1], [peeked |-> None, i |-> i + r[2]])
         ELSE IF c \in AsciiAlphabetic
            THEN LET r == from_symbol(buf, i) IN
                 LexOk(r[1], [peeked |-> None, i |-> i + r[2]])
         ELSE IF c \in AsciiWhitespace
            THEN scan(buf, i + 1)
         ELSE LexFatal("syntax", [peeked |-> None, i |-> i])
    ELSE LexOk(Tok("Eof"), [peeked |-> None, i |-> i])

\* Lexer::next
next(lx) ==
    IF lx.peeked # None
    THEN LexOk(lx.peeked, [lx EXCEPT !.peeked = None])
    ELSE scan(s, lx.i)

\* Lexer::peek that hands the token on without keeping it.
peek_nocache(lx) ==
    IF lx.peeked = None
    THEN LET r == next(lx) IN
         IF r.ok THEN LexOk(r.tok, r.lx) ELSE r
    ELSE LexOk(lx.peeked, lx)

\* Lexer::peek
peek(lx) ==
    IF lx.peeked = None
    THEN LET r == next(lx) IN
         IF r.ok THEN LexOk(r.tok, [r.lx EXCEPT !.peeked = r.tok]) ELSE r
    ELSE LexOk(lx.peeked, lx)

(***************************************************************************)
(* enum Node.  leaf tells the variant; lv is the LeafVal of a Leaf (kept   *)
(* as the token it came from), v and children the fields of a Node.        *)
(***************************************************************************)
Leaf(lv) == [leaf |-> TRUE, lv |-> lv, v |-> "", children |-> <<>>]
OpNode(v, children) == [leaf |-> FALSE, lv |-> None, v |-> v, children |-> children]

NoNode == [leaf |-> TRUE, lv |-> None, v |-> "", children |-> <<>>]

ParseOk(node, lx) == [ok |-> TRUE, node |-> node, lx |-> lx, why |-> ""]
ParseFatal(why, lx) == [ok |-> FALSE, node |-> NoNode, lx |-> lx, why |-> why]

\* impl From<&Token> for NodeVal; "" stands for the panic of the last arm.
NodeVal_from(tok) ==
    CASE tok.t = "Plus" -> "Add"
      [] tok.t = "Minus" -> "Sub"
      [] tok.t = "Star" -> "Mul"
      [] tok.t = "Slash" -> "Div"
      [] tok.t = "Caret" -> "Exp"
      [] tok.t = "Fac" -> "Fac"
      [] OTHER -> ""

\* infix_prec with * and / on the level of + and -.
infix_prec_flat(op) ==
    CASE op \in {"Add", "Sub", "Mul", "Div"} -> <<1, 2>>
      [] op = "Exp" -> <<8, 7>>
      [] OTHER -> <<-1, -1>>

\* infix_prec with the pair of + and - swapped.
infix_prec_swapped_add(op) ==
    CASE op \in {"Add", "Sub"} -> <<2, 1>>
      [] op \in {"Mul", "Div"} -> <<3, 4>>
      [] op = "Exp" -> <<8, 7>>
      [] OTHER -> <<-1, -1>>

\* infix_prec with the pair of ^ swapped.
infix_prec_swapped_exp(op) ==
    CASE op \in {"Add", "Sub"} -> <<1, 2>>
      [] op \in {"Mul", "Div"} -> <<3, 4>>
      [] op = "Exp" -> <<7, 8>>
      [] OTHER -> <<-1, -1>>

\* NodeVal::infix_prec; <<-1, -1>> stands for the panic of the last arm.
infix_prec(op) ==
    CASE op \in {"Add", "Sub"} -> <<1, 2>>
      [] op \in {"Mul", "Div"} -> <<3, 4>>
      [] op = "Exp" -> <<8, 7>>
      [] OTHER -> <<-1, -1>>

\* prefix_prec above every other power.
prefix_prec_tight(op) ==
    CASE op \in {"Add", "Sub"} -> 9
      [] OTHER -> -1

\* NodeVal::prefix_prec; -1 stands for the panic of the last arm.
prefix_prec(op) ==
    CASE op \in {"Add", "Sub"} -> 5
      [] OTHER -> -1

\* postfix_prec on the left power of ^.
postfix_prec_tight(op) ==
    CASE op = "Fac" -> 8
      [] OTHER -> -1

\* NodeVal::postfix_prec; -1 stands for Option::None.
postfix_prec(op) ==
    CASE op = "Fac" -> 6
      [] OTHER -> -1

\* A prefix operator built as the infix one applied to 0, and an infix node
\* that drops its left-hand side.
prefix_node_zero(op, rhs) == OpNode(op, <<Leaf(TokInt(0)), rhs>>)
infix_node_rhs(op, lhs, rhs) == OpNode(op, <<rhs>>)

\* The nodes expr_bp builds: for a prefix operator, a postfix operator and an
\* infix operator.
prefix_node(op, rhs) == OpNode(op, <<rhs>>)
postfix_node(op, lhs) == OpNode(op, <<lhs>>)
infix_node(op, lhs, rhs) == OpNode(op, <<lhs, rhs>>)

\* The assertion taking the end of the input for a closing parenthesis.
is_rparen_or_eof(tok) == tok.t \in {"RParen", "Eof"}

\* assert_eq!(tokens.next(), Token::RParen)
is_rparen(tok) == tok = Tok("RParen")

(***************************************************************************)
(* fn expr_bp: expr_bp is the match on the first token, expr_loop the loop *)
(* that follows it, entered with the left-hand side built so far.          *)
(***************************************************************************)
RECURSIVE expr_bp(_, _), expr_loop(_, _, _)

expr_bp(lx, min_prec) ==
    LET r == next(lx) IN
    IF ~r.ok THEN ParseFatal(r.why, r.lx)
    ELSE IF r.tok.t \in {"Int", "Sym"}
        THEN expr_loop(r.lx, Leaf(r.tok), min_prec)
    ELSE IF r.tok.t = "LParen"
        THEN LET in == expr_bp(r.lx, 0) IN
             IF ~in.ok THEN in
             ELSE LET n == next(in.lx) IN
                  IF ~n.ok THEN ParseFatal(n.why, n.lx)
                  ELSE IF ~is_rparen(n.tok) THEN ParseFatal("rparen", n.lx)
                  ELSE expr_loop(n.lx, in.node, min_prec)
    ELSE IF r.tok.t \in {"Minus", "Plus"}
        THEN LET op == NodeVal_from(r.tok)
                 prec == prefix_prec(op)
                 rhs == expr_bp(r.lx, prec)
             IN  IF ~rhs.ok THEN rhs
                 ELSE expr_loop(rhs.lx, prefix_node(op, rhs.node), min_prec)
    ELSE ParseFatal("literal", r.lx)

expr_loop(lx, lhs, min_prec) ==
    LET p == peek(lx) IN
    IF ~p.ok THEN ParseFatal(p.why, p.lx)
    ELSE IF p.tok.t \in {"Eof", "RParen"} THEN ParseOk(lhs, p.lx)
    ELSE IF p.tok.t = "Int" THEN ParseFatal("operator", p.lx)
    ELSE LET op == NodeVal_from(p.tok) IN
         IF op = "" THEN ParseFatal("nodeval", p.lx)
         ELSE IF postfix_prec(op) # -1
             THEN IF postfix_prec(op) < min_prec THEN ParseOk(lhs, p.lx)
                  ELSE expr_loop(next(p.lx).lx, postfix_node(op, lhs), min_prec)
         ELSE LET prec == infix_prec(op) IN
              IF prec[1] = -1 THEN ParseFatal("infix", p.lx)
              ELSE IF prec[1] < min_prec THEN ParseOk(lhs, p.lx)
              ELSE LET rhs == expr_bp(next(p.lx).lx, prec[2]) IN
                   IF ~rhs.ok THEN rhs
                   ELSE expr_loop(rhs.lx, infix_node(op, lhs, rhs.node), min_prec)

\* pub fn expr, applied to the buffer s.
expr == expr_bp(Lexer_new, 0)

NoParse == [ok |-> FALSE, node |-> NoNode, lx |-> Lexer_new, why |-> "none"]
NoVal == [ok |-> FALSE, v |-> 0, why |-> "none"]

(***************************************************************************)
(* i32 arithmetic.  A build either checks arithmetic overflow (a panic) or *)
(* wraps modulo 2^32; oc tells which.  Every intermediate value below      *)
(* stays inside the i32 range.                                             *)
(***************************************************************************)
EvalOk(v) == [ok |-> TRUE, v |-> v, why |-> ""]
EvalFatal(why) == [ok |-> FALSE, v |-> 0, why |-> why]

AddOverflows(a, b) ==
    \/ b > 0 /\ a > I32Max - b
    \/ b < 0 /\ a < I32Min - b

\* a + b modulo 2^32, as an i32.
WrapAdd(a, b) ==
    IF b > 0 /\ a > I32Max - b THEN (a + I32Min) + (b + I32Min)
    ELSE IF b < 0 /\ a < I32Min - b THEN (a - I32Min) + (b - I32Min)
    ELSE a + b

\* -a modulo 2^32.
WrapNeg(a) == IF a = I32Min THEN I32Min ELSE -a

Abs(a) == IF a < 0 THEN -a ELSE a

MulOverflows(a, b) ==
    IF a = 0 \/ b = 0 THEN FALSE
    ELSE IF a = I32Min THEN b # 1
    ELSE IF b = I32Min THEN a # 1
    ELSE IF (a > 0) = (b > 0) THEN Abs(a) > I32Max \div Abs(b)
    ELSE \* the product is negative: it fits iff |a| * |b| <= 2^31
         /\ Abs(a) > I32Max \div Abs(b)
         /\ ~(/\ Abs(a) - 1 = I32Max \div Abs(b)
              /\ (Abs(a) - 1) * Abs(b) = (I32Max - Abs(b)) + 1)

\* a * b modulo 2^32, as an i32, computed on 16-bit halves so that no
\* intermediate value leaves the 32-bit range.
WrapMul(a, b) ==
    LET al  == a % 65536
        ah  == a \div 65536
        bl  == b % 65536
        bh  == b \div 65536
        p0  == al * (bl % 256)
        p1  == al * (bl \div 256)
        t   == p0 + (p1 % 256) * 256
        lo  == t % 65536
        car == t \div 65536 + p1 \div 256
        hi  == (((ah * bl) % 65536) + ((al * bh) % 65536) + car) % 65536
    IN  IF hi >= 32768 THEN (hi - 65536) * 65536 + lo ELSE hi * 65536 + lo

\* The i32 operators +, -, * and unary - of a build.
i32_add(a, b, oc) ==
    IF oc /\ AddOverflows(a, b) THEN EvalFatal("overflow") ELSE EvalOk(WrapAdd(a, b))

i32_neg(a, oc) ==
    IF oc /\ a = I32Min THEN EvalFatal("overflow") ELSE EvalOk(WrapNeg(a))

i32_sub(a, b, oc) ==
    IF b = I32Min
    THEN (IF oc /\ a >= 0 THEN EvalFatal("overflow") ELSE EvalOk(WrapAdd(a, I32Min)))
    ELSE i32_add(a, -b, oc)

i32_mul(a, b, oc) ==
    IF oc /\ MulOverflows(a, b) THEN EvalFatal("overflow") ELSE EvalOk(WrapMul(a, b))

\* The i32 operator /: truncating; a zero divisor and MIN / -1 panic in
\* every build.
i32_div(a, b) ==
    IF b = 0 THEN EvalFatal("divzero")
    ELSE IF a = I32Min /\ b = -1 THEN EvalFatal("overflow")
    ELSE IF b = I32Min THEN EvalOk(IF a = I32Min THEN 1 ELSE 0)
    ELSE IF a = I32Min THEN EvalOk(IF b > 0 THEN -(I32Max \div b + (IF (I32Max % b) + 1 = b THEN 1 ELSE 0))
                                            ELSE I32Max \div (-b) + (IF (I32Max % (-b)) + 1 = -b THEN 1 ELSE 0))
    ELSE EvalOk(IF (a >= 0) = (b > 0) THEN Abs(a) \div Abs(b) ELSE -(Abs(a) \div Abs(b)))

\* A u32 is kept as its top bit hi and its low 31 bits lo.
\* `v as u32`: the bits of v, reinterpreted.
as_u32(v) == IF v >= 0 THEN [hi |-> 0, lo |-> v] ELSE [hi |-> 1, lo |-> v - I32Min]

U32Half(e) == [hi |-> 0, lo |-> e.lo \div 2 + e.hi * 1073741824]

\* i32::pow(self, exp: u32): square and multiply over the bits of exp.
RECURSIVE pow_loop(_, _, _, _)
pow_loop(base, acc, exp, oc) ==
    IF exp.hi = 0 /\ exp.lo <= 1
    THEN i32_mul(acc, base, oc)
    ELSE LET a == IF exp.lo % 2 = 1 THEN i32_mul(acc, base, oc) ELSE EvalOk(acc)
             b == i32_mul(base, base, oc)
         IN  IF ~a.ok THEN a
             ELSE IF ~b.ok THEN b
             ELSE pow_loop(b.v, a.v, U32Half(exp), oc)

pow(base, exp, oc) ==
    IF exp.hi = 0 /\ exp.lo = 0 THEN EvalOk(1) ELSE pow_loop(base, 1, exp, oc)

\* The products fac computes while its recursion unwinds, in their order:
\* fac(k - 1) * k for k = 2 .. n.  A product of 0 stays 0.
RECURSIVE fac_from(_, _, _, _)
fac_from(k, acc, n, oc) ==
    IF k > n \/ acc = 0 THEN EvalOk(acc)
    ELSE LET m == i32_mul(acc, k, oc) IN
         IF ~m.ok THEN m ELSE fac_from(k + 1, m.v, n, oc)

\* fn fac.  Below 0 the recursion has no base case: n - 1 overflows at
\* i32::MIN in a checking build, the stack is exhausted in a build that keeps
\* the recursion, and a wrapping build that turns the recursion into a loop
\* (tco) multiplies every non-zero i32 together, which is 0 modulo 2^32.
fac(n, oc, tco) ==
    IF n < 0
    THEN (IF ~oc /\ tco THEN EvalOk(0) ELSE EvalFatal("recursion"))
    ELSE fac_from(2, 1, n, oc)

\* args.iter().sum() and args.iter().product()
RECURSIVE sum(_, _, _), product(_, _, _)
sum(args, acc, oc) ==
    IF args = <<>> THEN EvalOk(acc)
    ELSE LET r == i32_add(acc, Head(args), oc) IN
         IF ~r.ok THEN r ELSE sum(Tail(args), r.v, oc)

product(args, acc, oc) ==
    IF args = <<>> THEN EvalOk(acc)
    ELSE LET r == i32_mul(acc, Head(args), oc) IN
         IF ~r.ok THEN r ELSE product(Tail(args), r.v, oc)

\* The arity each arm of NodeVal::apply accepts.
arity_ok(v, n) ==
    CASE v = "Sub" -> n \in {1, 2}
      [] v \in {"Div", "Exp"} -> n = 2
      [] v = "Fac" -> n = 1
      [] OTHER -> TRUE

\* NodeVal::apply
apply(v, args, oc, tco) ==
    IF ~arity_ok(v, Len(args)) THEN EvalFatal("arity")
    ELSE CASE v = "Add" -> sum(args, 0, oc)
           [] v = "Sub" -> IF Len(args) = 1 THEN i32_neg(args[1], oc)
                           ELSE i32_sub(args[1], args[2], oc)
           [] v = "Mul" -> product(args, 1, oc)
           [] v = "Div" -> i32_div(args[1], args[2])
           [] v = "Exp" -> pow(args[1], as_u32(args[2]), oc)
           [] v = "Fac" -> fac(args[1], oc, tco)

\* fn eval; eval_all is children.iter().map(eval).collect(), which stops at
\* the first child that does not return.
RECURSIVE eval(_, _, _), eval_all(_, _, _, _)
eval(node, oc, tco) ==
    IF node.leaf
    THEN (IF node.lv.t = "Int" THEN EvalOk(node.lv.n) ELSE EvalFatal("symbol"))
    ELSE LET r == eval_all(node.children, <<>>, oc, tco) IN
         IF ~r.ok THEN [ok |-> FALSE, v |-> 0, why |-> r.why]
         ELSE apply(node.v, r.args, oc, tco)

eval_all(children, args, oc, tco) ==
    IF children = <<>> THEN [ok |-> TRUE, args |-> args, why |-> ""]
    ELSE LET r == eval(Head(children), oc, tco) IN
         IF ~r.ok THEN [ok |-> FALSE, args |-> <<>>, why |-> r.why]
         ELSE eval_all(Tail(children), Append(args, r.v), oc, tco)

(***************************************************************************)
(* Inputs: every buffer of up to MaxLen bytes, and the longer chains       *)
(* a o a o ... o a of up to MaxChain infix operators.                      *)
(***************************************************************************)
InfixBytes == {"+", "-", "*", "/", "^"}

Chain(ops) == [k \in 1..(2 * Len(ops) + 1) |-> IF k % 2 = 1 THEN "a" ELSE ops[k \div 2]]

Chains(n) == {Chain(ops) : ops \in UNION {[1..k -> InfixBytes] : k \in 0..n}}

(***************************************************************************)
(* The pipeline of main: the buffer is parsed, then the tree evaluated.    *)
(***************************************************************************)
NoBuild == [oc |-> FALSE, tco |-> FALSE]

\* The tokens of buf from offset i on, up to Eof, as a Lexer nobody peeks at
\* returns them; a byte the lexer rejects ends them with None.
RECURSIVE TokensFrom(_, _)
TokensFrom(buf, i) ==
    LET r == scan(buf, i) IN
    IF ~r.ok THEN <<None>>
    ELSE IF r.tok.t = "Eof" THEN <<>>
    ELSE <<r.tok>> \o TokensFrom(buf, r.lx.i)

Init ==
    /\ \/ \E k \in 0..MaxLen : s \in [1..k -> ExprBytes]
       \/ s \in Chains(MaxChain)
    /\ toks = <<>>
    /\ lexer = Lexer_new
    /\ nexts = <<>>
    /\ served = 0
    /\ lastPeek = None
    /\ pc = "parse"
    /\ ast = NoParse
    /\ build = NoBuild
    /\ val = NoVal

\* parser::expr(&s)
Parse ==
    /\ pc = "parse"
    /\ ast' = expr
    /\ lexer' = ast'.lx
    /\ pc' = IF ast'.ok THEN "eval" ELSE "fatal"
    /\ toks' = TokensFrom(s, 0)
    /\ UNCHANGED <<s, nexts, served, lastPeek, build, val>>

\* eval(&ast), in one of the builds of the program
Evaluate ==
    /\ pc = "eval"
    /\ build' \in [oc : BOOLEAN, tco : BOOLEAN]
    /\ val' = eval(ast.node, build'.oc, build'.tco)
    /\ pc' = IF val'.ok THEN "done" ELSE "fatal"
    /\ UNCHANGED <<s, toks, lexer, nexts, served, lastPeek, ast>>

Next == Parse \/ Evaluate

Spec == Init /\ [][Next]_vars

(***************************************************************************)
(* The Lexer on its own: a caller makes any calls of next() and peek(), in *)
(* any order, until the process exits or MaxCalls tokens were returned.    *)
(***************************************************************************)
LexInit ==
    /\ \E k \in 0..MaxLexLen : s \in [1..k -> LexBytes]
    /\ toks = <<>>
    /\ lexer = Lexer_new
    /\ nexts = <<>>
    /\ served = 0
    /\ lastPeek = None
    /\ pc = "lex"
    /\ ast = NoParse
    /\ build = NoBuild
    /\ val = NoVal

\* a call of Lexer::next
CallNext ==
    /\ pc = "lex"
    /\ Len(nexts) < MaxCalls
    /\ LET r == next(lexer) IN
        /\ lexer' = r.lx
        /\ pc' = IF r.ok THEN "lex" ELSE "fatal"
        /\ nexts' = IF r.ok THEN Append(nexts, r.tok) ELSE nexts
        /\ served' = IF lexer.peeked # None THEN served + 1 ELSE served
        /\ lastPeek' = None
    /\ UNCHANGED <<s, toks, ast, build, val>>

\* a call of Lexer::peek
CallPeek ==
    /\ pc = "lex"
    /\ LET r == peek(lexer) IN
        /\ lexer' = r.lx
        /\ pc' = IF r.ok THEN "lex" ELSE "fatal"
        /\ lastPeek' = r.tok
    /\ UNCHANGED <<s, toks, nexts, served, ast, build, val>>

LexNext == CallNext \/ CallPeek

LexSpec == LexInit /\ [][LexNext]_vars

(***************************************************************************)
(* Notation of the properties.                                             *)
(***************************************************************************)
\* expr has run on s and eval has not yet; expr returned a tree.
Parsed == ast # NoParse /\ val = NoVal
Returned == Parsed /\ ast.ok

Tokens == toks

IsOperand(tok) == tok.t \in {"Int", "Sym"}
IsInfix(tok) == tok.t \in {"Plus", "Minus", "Star", "Slash", "Caret"}
IsPrefix(tok) == tok.t \in {"Plus", "Minus"}

\* The levels of the infix operators, loosest first.
Level(tok) ==
    CASE tok.t \in {"Plus", "Minus"} -> 1
      [] tok.t \in {"Star", "Slash"} -> 2
      [] tok.t = "Caret" -> 3

\* The operator an operator token is written for: + is Add, and so on.
Operator(tok) ==
    CASE tok.t = "Plus" -> "Add"
      [] tok.t = "Minus" -> "Sub"
      [] tok.t = "Star" -> "Mul"
      [] tok.t = "Slash" -> "Div"
      [] tok.t = "Caret" -> "Exp"
      [] tok.t = "Fac" -> "Fac"

\* (o l r) and (o x)
Bin(tok, l, r) == OpNode(Operator(tok), <<l, r>>)
Un(tok, x) == OpNode(Operator(tok), <<x>>)

\* tk is x o y o ... o z: operands with one infix operator between them.
IsChain(tk) ==
    /\ Len(tk) % 2 = 1
    /\ \A k \in 1..Len(tk) : IF k % 2 = 1 THEN IsOperand(tk[k]) ELSE IsInfix(tk[k])

ChainOps(tk) == {tk[k] : k \in {j \in 1..Len(tk) : j % 2 = 0}}

\* The first n tokens of a chain, nested to the left; the tokens from k on,
\* nested to the right.
RECURSIVE LeftNest(_, _)
LeftNest(tk, n) ==
    IF n = 1 THEN Leaf(tk[1])
    ELSE Bin(tk[n - 1], LeftNest(tk, n - 2), Leaf(tk[n]))

RECURSIVE RightNest(_, _)
RightNest(tk, k) ==
    IF k = Len(tk) THEN Leaf(tk[k])
    ELSE Bin(tk[k + 1], Leaf(tk[k]), RightNest(tk, k + 2))

\* The nodes of a tree: the tree and the nodes of its children.
RECURSIVE Nodes(_)
Nodes(node) ==
    {node} \cup UNION {Nodes(node.children[k]) : k \in 1..Len(node.children)}

\* C1: an infix operator of a tighter level groups before a looser one,
\* whichever side it stands on: x l y t z is (l x (t y z)) and x t y l z is
\* (l (t x y) z), for the levels + - below * / below ^.
MixedPrecedence ==
    Parsed =>
        LET tk == Tokens IN
        (IsChain(tk) /\ Len(tk) = 5 /\ Level(tk[2]) # Level(tk[4])) =>
            /\ Returned
            /\ ast.node =
                IF Level(tk[2]) < Level(tk[4])
                THEN Bin(tk[2], Leaf(tk[1]), Bin(tk[4], Leaf(tk[3]), Leaf(tk[5])))
                ELSE Bin(tk[4], Bin(tk[2], Leaf(tk[1]), Leaf(tk[3])), Leaf(tk[5]))

MixedPrecedenceWitness ==
    /\ Returned
    /\ IsChain(Tokens) /\ Len(Tokens) = 5
    /\ Tokens[2].t = "Caret" /\ Tokens[4].t = "Slash"
    /\ Tokens[1].t = "Int" /\ Tokens[3].t = "Sym"
    /\ ast.node.v = "Div"

\* C2: a chain of infix operators of one level, + - or * /, nests to the
\* left, whatever its length: x o1 y o2 z is (o2 (o1 x y) z).
LeftAssociativity ==
    Parsed =>
        LET tk == Tokens IN
        (/\ IsChain(tk)
         /\ \/ \A o \in ChainOps(tk) : Level(o) = 1
            \/ \A o \in ChainOps(tk) : Level(o) = 2) =>
            /\ Returned
            /\ ast.node = LeftNest(tk, Len(tk))

LeftAssociativityWitness ==
    /\ Returned
    /\ IsChain(Tokens) /\ Len(Tokens) = 2 * MaxChain + 1
    /\ \A o \in ChainOps(Tokens) : Level(o) = 1
    /\ Tokens[2].t = "Minus" /\ Tokens[4].t = "Plus"
    /\ ast.node = LeftNest(Tokens, Len(Tokens))

\* C3: a chain of ^ nests to the right, whatever its length: x ^ y ^ z is
\* (^ x (^ y z)); the right operand is parsed with minimum 7, which the left
\* power 8 of a following ^ passes.
RightAssociativity ==
    Parsed =>
        LET tk == Tokens IN
        (IsChain(tk) /\ \A o \in ChainOps(tk) : o.t = "Caret") =>
            /\ Returned
            /\ ast.node = RightNest(tk, 1)
            /\ infix_prec("Exp") = <<8, 7>>

RightAssociativityWitness ==
    /\ Returned
    /\ IsChain(Tokens) /\ Len(Tokens) = 2 * MaxChain + 1
    /\ \A o \in ChainOps(Tokens) : o.t = "Caret"
    /\ ast.node.children[2].children[2].v = "Exp"

\* C5: a prefix + or - takes its operand with minimum 5: the operand absorbs
\* a following ! and ^, while a following * / + - applies to the whole unary
\* node; prefixes nest.  p q x o y is (o (p (q x)) y) for o in * / + - and
\* (p (q (^ x y))) for ^; p x ! is (p (! x)).
PrefixBinding ==
    Parsed =>
        LET tk == Tokens IN
        /\ (/\ Len(tk) = 5 /\ IsPrefix(tk[1]) /\ IsPrefix(tk[2])
            /\ IsOperand(tk[3]) /\ IsInfix(tk[4]) /\ IsOperand(tk[5])) =>
                /\ Returned
                /\ prefix_prec(Operator(tk[1])) = 5
                /\ ast.node =
                    IF tk[4].t = "Caret"
                    THEN Un(tk[1], Un(tk[2], Bin(tk[4], Leaf(tk[3]), Leaf(tk[5]))))
                    ELSE Bin(tk[4], Un(tk[1], Un(tk[2], Leaf(tk[3]))), Leaf(tk[5]))
        /\ (/\ Len(tk) = 4 /\ IsPrefix(tk[1])
            /\ IsOperand(tk[2]) /\ IsInfix(tk[3]) /\ IsOperand(tk[4])) =>
                /\ Returned
                /\ ast.node =
                    IF tk[3].t = "Caret"
                    THEN Un(tk[1], Bin(tk[3], Leaf(tk[2]), Leaf(tk[4])))
                    ELSE Bin(tk[3], Un(tk[1], Leaf(tk[2])), Leaf(tk[4]))
        /\ (Len(tk) = 3 /\ IsPrefix(tk[1]) /\ IsOperand(tk[2]) /\ tk[3].t = "Fac") =>
                /\ Returned
                /\ ast.node = Un(tk[1], Un(tk[3], Leaf(tk[2])))

PrefixBindingWitness ==
    /\ Returned
    /\ Len(Tokens) = 5
    /\ Tokens[1].t = "Minus" /\ Tokens[2].t = "Minus" /\ Tokens[4].t = "Star"
    /\ IsOperand(Tokens[3]) /\ IsOperand(Tokens[5])
    /\ ast.node.v = "Mul"
    /\ ast.node.children[1].children[1].v = "Sub"

\* The minimum binding powers expr_bp is called with.
MinPrecs == {0, 2, 4, 5, 7}

Probe == Leaf(TokSym(<<"l", "h", "s">>))

\* Down the first children of node, the node holding Probe is (! Probe).
RECURSIVE WrapsProbe(_)
WrapsProbe(node) ==
    /\ ~node.leaf
    /\ IF node.children[1] = Probe THEN node = OpNode("Fac", <<Probe>>)
       ELSE WrapsProbe(node.children[1])

\* C6: a postfix ! is consumed only by a call whose minimum is at most 6, and
\* wraps the whole left-hand side that call holds; the call for the right
\* operand of ^ (minimum 7) returns at ! with its left-hand side, the ! left
\* in the lookahead, and does not fail; so x ^ y ! is (! (^ x y)).
PostfixVsPower ==
    Parsed =>
        LET tk == Tokens IN
        /\ (/\ Len(tk) = 4 /\ IsOperand(tk[1]) /\ tk[2].t = "Caret"
            /\ IsOperand(tk[3]) /\ tk[4].t = "Fac") =>
                /\ Returned
                /\ ast.node = Un(tk[4], Bin(tk[2], Leaf(tk[1]), Leaf(tk[3])))
        /\ \A p \in {q \in 0..(Len(s) - 1) : s[q + 1] = "!"} :
            LET lx == [peeked |-> None, i |-> p] IN
            scan(s, p).tok.t = "Fac" /\
                \A m \in MinPrecs :
                    LET r == expr_loop(lx, Probe, m) IN
                    IF m > 6 THEN r = ParseOk(Probe, peek(lx).lx)
                    ELSE r.ok => WrapsProbe(r.node)
        /\ (Returned /\ \A k \in 1..Len(tk) : tk[k].t \notin {"LParen", "RParen"}) =>
            \A n \in Nodes(ast.node) :
                (~n.leaf /\ n.v = "Exp") => n.children[2].v # "Fac"

PostfixVsPowerWitness ==
    /\ Returned
    /\ Len(Tokens) = 4
    /\ Tokens[1].t = "Sym" /\ Tokens[2].t = "Caret"
    /\ Tokens[3].t = "Int" /\ Tokens[4].t = "Fac"
    /\ ast.node.v = "Fac"
    /\ ast.node.children[1].v = "Exp"

(***************************************************************************)
(* Parentheses.                                                            *)
(***************************************************************************)
\* The "(" less the ")" among the first k bytes of buf.
Depth(buf, k) ==
    Cardinality({j \in 1..k : buf[j] = "("}) - Cardinality({j \in 1..k : buf[j] = ")"})

\* No ")" of buf lacks an open "("; and no "(" lacks its ")" either.
NoStrayClose(buf) == \A k \in 1..Len(buf) : Depth(buf, k) >= 0
Balanced(buf) == NoStrayClose(buf) /\ Depth(buf, Len(buf)) = 0

\* The bytes expr has consumed when it returns: those before the token left
\* in the lookahead buffer.
Consumed ==
    SubSeq(s, 1, ast.lx.i - (IF ast.lx.peeked.t = "RParen" THEN 1 ELSE 0))

ConsumedTokens ==
    IF ast.lx.peeked.t = "Eof" THEN toks ELSE TokensFrom(Consumed, 0)

\* C7 as claimed: whenever the parentheses of the input are not balanced,
\* parse returns no tree.
UnbalancedIsFatal == (Parsed /\ ~Balanced(s)) => ~ast.ok

\* C7, amended: an input with a "(" that lacks its ")" and no ")" that lacks
\* its "(" is fatal; parse never returns having consumed a "(" without its
\* ")"; and a ")" that lacks its "(" either is fatal or, standing where an
\* operator may follow at top level, is left in the lookahead buffer and
\* ends the parse.
UnclosedIsFatal ==
    Parsed =>
        /\ (NoStrayClose(s) /\ ~Balanced(s)) => ~ast.ok
        /\ ast.ok =>
            /\ Balanced(Consumed)
            /\ ast.lx.peeked.t \in {"Eof", "RParen"}
            /\ ~NoStrayClose(s) => ast.lx.peeked.t = "RParen"

UnclosedIsFatalWitness ==
    /\ Parsed /\ ~ast.ok /\ ast.why = "rparen"
    /\ NoStrayClose(s) /\ Depth(s, Len(s)) = 2
    /\ Len(toks) = MaxLen

(***************************************************************************)
(* Arity.                                                                  *)
(***************************************************************************)
\* How many nodes of the tree hold an operator of vs over n children.
RECURSIVE ArityCount(_, _, _)
RECURSIVE ArityCountAll(_, _, _)
ArityCount(node, vs, n) ==
    IF node.leaf THEN 0
    ELSE (IF node.v \in vs /\ Len(node.children) = n THEN 1 ELSE 0)
         + ArityCountAll(node.children, vs, n)

ArityCountAll(children, vs, n) ==
    IF children = <<>> THEN 0
    ELSE ArityCount(Head(children), vs, n) + ArityCountAll(Tail(children), vs, n)

\* Token k of tk stands where an operand is expected: first, or after "(",
\* or after an operator that is not a postfix one.
OperandExpected(tk, k) ==
    k = 1 \/ tk[k - 1].t \in {"LParen", "Plus", "Minus", "Star", "Slash", "Caret"}

\* The tokens of tk with a type of ts in the prefix role, in the other role.
PrefixRole(tk, ts) == {k \in 1..Len(tk) : tk[k].t \in ts /\ OperandExpected(tk, k)}
OtherRole(tk, ts) == {k \in 1..Len(tk) : tk[k].t \in ts /\ ~OperandExpected(tk, k)}

Operators == {"Add", "Sub", "Mul", "Div", "Exp", "Fac"}

\* C8: in every tree parse returns, an operator node has 1 child when built
\* for a prefix + - or a postfix !, and 2 when built for an infix operator:
\* Fac has 1 child, Mul Div Exp have 2, Add Sub have 1 or 2; and no arity
\* assertion of the evaluator fails.
ArityInvariant ==
    /\ val.why # "arity"
    /\ Returned =>
        LET tk == ConsumedTokens IN
        /\ \A n \in Nodes(ast.node) :
            ~n.leaf =>
                /\ n.v \in Operators
                /\ n.v = "Fac" => Len(n.children) = 1
                /\ n.v \in {"Mul", "Div", "Exp"} => Len(n.children) = 2
                /\ n.v \in {"Add", "Sub"} => Len(n.children) \in {1, 2}
        /\ ArityCount(ast.node, {"Add", "Sub"}, 1)
            = Cardinality(PrefixRole(tk, {"Plus", "Minus"}))
        /\ ArityCount(ast.node, {"Fac"}, 1) = Cardinality(OtherRole(tk, {"Fac"}))
        /\ ArityCount(ast.node, Operators, 2)
            = Cardinality(OtherRole(tk, {"Plus", "Minus", "Star", "Slash", "Caret"}))

ArityInvariantWitness ==
    /\ pc = "done"
    /\ ArityCount(ast.node, {"Sub"}, 1) = 1
    /\ ArityCount(ast.node, {"Sub"}, 2) = 1
    /\ ArityCount(ast.node, {"Fac"}, 1) = 1

\* C10 as claimed: every Add node and every Mul node the parser builds has
\* exactly 2 children.
AddMulBinary ==
    Returned =>
        \A n \in Nodes(ast.node) :
            (~n.leaf /\ n.v \in {"Add", "Mul"}) => Len(n.children) = 2

\* C10, amended: every Mul node has exactly 2 children; an Add node has 2,
\* except the Add nodes built for a prefix +, one for each, which have 1.
AddMulArity ==
    Returned =>
        /\ \A n \in Nodes(ast.node) :
            /\ (~n.leaf /\ n.v = "Mul") => Len(n.children) = 2
            /\ (~n.leaf /\ n.v = "Add") => Len(n.children) \in {1, 2}
        /\ ArityCount(ast.node, {"Add"}, 1)
            = Cardinality(PrefixRole(ConsumedTokens, {"Plus"}))

AddMulArityWitness ==
    /\ Returned
    /\ ArityCount(ast.node, {"Add"}, 1) = 1
    /\ ArityCount(ast.node, {"Add"}, 2) = 1

(***************************************************************************)
(* Evaluation.                                                             *)
(***************************************************************************)
\* C9 as claimed: evaluation never returns an integer for a tree with an
\* Exp node whose second child evaluates to a negative integer.
NegativeExponentIsFatal ==
    pc = "done" =>
        \A n \in Nodes(ast.node) :
            (~n.leaf /\ n.v = "Exp") =>
                LET e == eval(n.children[2], build.oc, build.tco) IN
                ~(e.ok /\ e.v < 0)

(***************************************************************************)
(* Lookahead.                                                              *)
(***************************************************************************)
\* The first n tokens next() returns on a Lexer for s that is never peeked
\* at, and the offset it has reached then.
RECURSIVE Unpeeked(_, _)
Unpeeked(i, n) ==
    IF n = 0 THEN [toks |-> <<>>, i |-> i]
    ELSE LET r == scan(s, i) IN
         IF ~r.ok THEN [toks |-> <<None>>, i |-> i]
         ELSE LET rest == Unpeeked(r.lx.i, n - 1) IN
              [toks |-> <<r.tok>> \o rest.toks, i |-> rest.i]

\* C4: whatever calls of peek() come between them, the calls of next()
\* return the tokens they return with no peek() at all; peek() returns the
\* token the next call of next() returns, again and again until then, and
\* does not advance; the lookahead buffer holds one token at most, which
\* next() hands out once.
LookaheadTransparent ==
    pc \in {"lex", "fatal"} =>
        LET n == Len(nexts)
            held == IF lexer.peeked = None THEN 0 ELSE 1
        IN  /\ nexts = Unpeeked(0, n).toks
            /\ served <= n
            /\ pc = "lex" =>
                /\ lexer.i = Unpeeked(0, n + held).i
                /\ lexer.peeked # None =>
                    Unpeeked(0, n + 1).toks = Append(nexts, lexer.peeked)
                /\ lastPeek # None =>
                    /\ lexer.peeked = lastPeek
                    /\ next(lexer).ok /\ next(lexer).tok = lastPeek
                    /\ peek(lexer) = LexOk(lastPeek, lexer)

LookaheadTransparentWitness ==
    /\ pc = "lex"
    /\ Len(nexts) = 3 /\ served = 2
    /\ nexts[1].t = "Sym" /\ Len(nexts[1].name) = 2 /\ nexts[2].t = "Fac"
    /\ nexts[3].t = "Eof"
    /\ lastPeek.t = "Eof"

====
